---- MODULE Spec2Model ----
(***************************************************************************)
(* The remote job client of dash_hummingbird_components:                   *)
(*   exec.py        shell_escape, resolve_cmd, execute, queue,             *)
(*                  simplify_pueue_status, status                          *)
(*   components.py  the PueueLog callbacks (status / live polling loop,    *)
(*                  kill, queue again)                                     *)
(* together with the pueue task queue they talk to over the module-level   *)
(* paramiko client SSH.                                                    *)
(*                                                                         *)
(* Text is a sequence of atoms: single characters where the characters     *)
(* matter (digits), literal chunks of the f-strings elsewhere.             *)
(***************************************************************************)
EXTENDS Integers, Sequences, FiniteSets, TLC

----------------------------------------------------------------------------
(* Bounds of the model *)

\* tasks the model lets the queue accept
MaxNew == 1
\* progress notifications one run of the live loop may emit
MaxPolls == 2
\* threads of one process that call execute
MaxThreads == 2
\* sessions the threads may open between them
MaxSessions == 3
\* lines a local process prints
MaxLines == 3
\* characters of a value given to shell_escape or of a string command
MaxLen == 2
\* tokens of a sequence command, options of a (base, options) command
MaxTokens == 2
\* microseconds of the clock at which start_notebook may be called
MaxClock == 3
\* tags, and options, a TagList is built from
MaxTags == 2
\* calls of table_output in one process
MaxCalls == 2

----------------------------------------------------------------------------
(* Python values and text *)

Digits == {"0", "1", "2", "3", "4", "5", "6", "7", "8", "9"}

DigitChar(d) ==
    CASE d = 0 -> "0" [] d = 1 -> "1" [] d = 2 -> "2" [] d = 3 -> "3"
      [] d = 4 -> "4" [] d = 5 -> "5" [] d = 6 -> "6" [] d = 7 -> "7"
      [] d = 8 -> "8" [] d = 9 -> "9"

DigitVal(c) ==
    CASE c = "0" -> 0 [] c = "1" -> 1 [] c = "2" -> 2 [] c = "3" -> 3
      [] c = "4" -> 4 [] c = "5" -> 5 [] c = "6" -> 6 [] c = "7" -> 7
      [] c = "8" -> 8 [] c = "9" -> 9

\* str(n) of a non-negative int: its decimal digits
RECURSIVE int_to_str(_)
int_to_str(n) ==
    IF n < 10 THEN <<DigitChar(n)>>
    ELSE int_to_str(n \div 10) \o <<DigitChar(n % 10)>>

\* int(s) of a text of digits; int("") raises ValueError
RECURSIVE digits_value(_)
digits_value(s) ==
    IF Len(s) = 0 THEN 0
    ELSE 10 * digits_value(SubSeq(s, 1, Len(s) - 1)) + DigitVal(s[Len(s)])

py_int(s) ==
    IF Len(s) = 0 \/ \E i \in 1..Len(s) : s[i] \notin Digits
    THEN [exc |-> "ValueError", n |-> 0]
    ELSE [exc |-> "", n |-> digits_value(s)]

\* filter_digits keeping the first digit only
filter_first_digit(text) ==
    LET d == SelectSeq(text, LAMBDA x : x \in Digits)
    IN  IF Len(d) = 0 THEN d ELSE <<d[1]>>

\* "".join(filter(lambda x: x in string.digits, text))
filter_digits(text) == SelectSeq(text, LAMBDA x : x \in Digits)

\* phrase in text
py_in(phrase, text) == \E i \in 1..Len(text) : text[i] = phrase

\* the longest prefix of digits of a text
RECURSIVE digit_prefix(_)
digit_prefix(s) ==
    IF Len(s) = 0 \/ Head(s) \notin Digits THEN <<>>
    ELSE <<Head(s)>> \o digit_prefix(Tail(s))

\* the value of a one-element set: {f(x) : x \in {e}} is f of the value of e
Only(S) == CHOOSE x \in S : TRUE

None == [t |-> "none", day |-> 0, tod |-> 0]
Stamp(d, h) == [t |-> "time", day |-> d, tod |-> h]

\* time_parser: the first ten characters (the date) of an ISO timestamp
time_parser(x) == IF x = None THEN None ELSE Stamp(x.day, 0)

----------------------------------------------------------------------------
(* Commands: str, List[str], Tuple[str, Dict], or anything else *)

CmdStr(s) == [kind |-> "str", s |-> s, l |-> <<>>, opts |-> <<>>]
CmdList(l) == [kind |-> "list", s |-> <<>>, l |-> l, opts |-> <<>>]
CmdTuple(base, opts) == [kind |-> "tuple", s |-> base, l |-> <<>>, opts |-> opts]
CmdOther(k) == [kind |-> k, s |-> <<>>, l |-> <<>>, opts |-> <<>>]

\* option values of a (base, options) command
OptBool(b) == [t |-> "bool", b |-> b, s |-> <<>>]
OptNone == [t |-> "none", b |-> FALSE, s |-> <<>>]
OptStr(s) == [t |-> "str", b |-> FALSE, s |-> s]

\* " ".join(tokens)
RECURSIVE join_space(_)
join_space(tokens) ==
    IF Len(tokens) = 0 THEN <<>>
    ELSE IF Len(tokens) = 1 THEN tokens[1]
    ELSE tokens[1] \o <<" ">> \o join_space(Tail(tokens))

\* str(value).replace("'", "\\''")
RECURSIVE replace_quote(_)
replace_quote(s) ==
    IF Len(s) = 0 THEN <<>>
    ELSE (IF Head(s) = "'" THEN <<"\\", "'", "'">> ELSE <<Head(s)>>)
         \o replace_quote(Tail(s))

shell_escape(value) == <<"'">> \o replace_quote(value) \o <<"'">>

\* a tuple of more than two elements: the base, the options, and the rest
CmdTupleN(base, opts, extra) == [kind |-> "tuple", s |-> base, l |-> extra, opts |-> opts]

\* the tokens of the options with a bare flag for every boolean, true or false
RECURSIVE option_tokens_any_bool(_)
option_tokens_any_bool(opts) ==
    IF Len(opts) = 0 THEN <<>>
    ELSE LET o == Head(opts)
             tok == IF o.v.t = "bool"
                    THEN << <<"--">> \o o.k >>
                    ELSE IF o.v.t /= "none"
                    THEN << <<"--">> \o o.k \o <<"=">> \o shell_escape(o.v.s) >>
                    ELSE <<>>
         IN  tok \o option_tokens_any_bool(Tail(opts))

\* the tokens of the options of a (base, options) command, in option order
RECURSIVE option_tokens(_)
option_tokens(opts) ==
    IF Len(opts) = 0 THEN <<>>
    ELSE LET o == Head(opts)
             tok == IF o.v.t = "bool"
                    THEN (IF o.v.b THEN << <<"--">> \o o.k >> ELSE <<>>)
                    ELSE IF o.v.t /= "none"
                    THEN << <<"--">> \o o.k \o <<"=">> \o shell_escape(o.v.s) >>
                    ELSE <<>>
         IN  tok \o option_tokens(Tail(opts))

\* resolve_cmd putting a string command in quotes
resolve_cmd_quoting(cmd) ==
    IF cmd.kind = "str" THEN [exc |-> "", s |-> shell_escape(cmd.s)]
    ELSE IF cmd.kind = "list" THEN [exc |-> "", s |-> join_space(cmd.l)]
    ELSE IF cmd.kind = "tuple"
    THEN [exc |-> "", s |-> join_space(<<cmd.s>> \o option_tokens(cmd.opts))]
    ELSE [exc |-> "TypeError", s |-> <<>>]

resolve_cmd(cmd) ==
    IF cmd.kind = "str" THEN [exc |-> "", s |-> cmd.s]
    ELSE IF cmd.kind = "list" THEN [exc |-> "", s |-> join_space(cmd.l)]
    ELSE IF cmd.kind = "tuple"
    THEN IF Len(cmd.l) /= 0
         THEN \* assert len(cmd) == 2
              [exc |-> "AssertionError", s |-> <<>>]
         ELSE [exc |-> "", s |-> join_space(<<cmd.s>> \o option_tokens(cmd.opts))]
    ELSE [exc |-> "TypeError", s |-> <<>>]

----------------------------------------------------------------------------
(* The task queue (pueue) on the worker host *)

\* a status as pueue's JSON gives it: a plain label, or a one-entry mapping
\* {key: val} whose val is null, a label, a number or again a one-entry
\* mapping {val.key: val.n}
NoVal == [tag |-> "none", key |-> "", n |-> 0]
ValStr(l) == [tag |-> "str", key |-> l, n |-> 0]
ValInt(n) == [tag |-> "int", key |-> "", n |-> n]
ValDict(k, n) == [tag |-> "dict", key |-> k, n |-> n]
StPlain(l) == [tag |-> "str", key |-> l, val |-> NoVal]
StDict(k, v) == [tag |-> "dict", key |-> k, val |-> v]

\* the statuses a task ends in, as the queue encodes them
FinalStatuses ==
    { StDict("Done", ValStr("Success")),
      StDict("Done", ValDict("Failed", 127)),
      StDict("Done", ValStr("Killed")),
      StPlain("Finished") }

\* the statuses of a task that has not ended
StQueued == StPlain("Queued")
StStashed == StDict("Stashed", ValDict("enqueue_at", 0))
StRunning == StPlain("Running")

NewTask(id, command, group) ==
    [ id |-> id, command |-> command, group |-> group, status |-> StQueued,
      start |-> None, end_ |-> None, created_at |-> Stamp(1, 1), output |-> 0 ]

\* lines of output `pueue log` prints without -f
LogTail == 100

\* ./pueue add -g <group> -- <command>
pueue_add(line, tasks, next_id) ==
    LET group == line[2]
        command == SubSeq(line, 4, Len(line))
    IN  [ stdout |-> <<"New task added", " ", "(", "i", "d", " ">>
                     \o int_to_str(next_id) \o <<")", ".">>,
          isjson |-> FALSE, json |-> <<>>,
          tasks |-> (next_id :> NewTask(next_id, command, group)) @@ tasks,
          next_id |-> next_id + 1 ]

\* ./pueue log -j <id> {-f | -l 100}: a JSON object keyed by the task id
pueue_log(line, tasks, next_id) ==
    LET key == digit_prefix(Tail(line))
        id == digits_value(key)
        full == line[Len(line)] = " -f"
    IN  [ stdout |-> <<>>, isjson |-> TRUE,
          json |-> IF Len(key) > 0 /\ id \in DOMAIN tasks
                   THEN key :> [ task |-> [f \in DOMAIN tasks[id] \ {"output"} |-> tasks[id][f]],
                                 output |-> IF full \/ tasks[id].output < LogTail
                                            THEN tasks[id].output ELSE LogTail ]
                   ELSE <<>>,
          tasks |-> tasks, next_id |-> next_id ]

\* ./pueue kill <id>: a running task is killed, any other is left as it is
pueue_kill(line, tasks, next_id) ==
    LET key == digit_prefix(Tail(line))
        id == digits_value(key)
    IN  [ stdout |-> <<>>, isjson |-> FALSE, json |-> <<>>,
          tasks |-> IF Len(key) > 0 /\ id \in DOMAIN tasks /\ tasks[id].status = StRunning
                    THEN [tasks EXCEPT ![id].status = StDict("Done", ValStr("Killed")),
                                       ![id].end_ = Stamp(1, 3)]
                    ELSE tasks,
          next_id |-> next_id ]

\* what the worker's shell does with a command line, and what it prints on
\* stdout (stderr is not read)
remote_shell(line, tool, tasks, next_id) ==
    LET nothing == [ stdout |-> <<>>, isjson |-> FALSE, json |-> <<>>,
                     tasks |-> tasks, next_id |-> next_id ]
    IN  IF tool /= "ok" \/ Len(line) = 0 THEN nothing
        ELSE IF line[1] = "./pueue add -g " THEN pueue_add(line, tasks, next_id)
        ELSE IF line[1] = "./pueue log -j " THEN pueue_log(line, tasks, next_id)
        ELSE IF line[1] = "./pueue kill " THEN pueue_kill(line, tasks, next_id)
        ELSE nothing

----------------------------------------------------------------------------
(* exec.py: execute (remote mode), queue, simplify_pueue_status, status *)

\* what the network and the queue tool do during one call of execute
Outcomes == {"ok", "connect_fail", "exec_fail", "tool_error"}

Call(op, attempts, opened, ran, closed) ==
    [op |-> op, attempts |-> attempts, opened |-> opened, ran |-> ran, closed |-> closed]

Raised(exc, calls, tasks, next_id) ==
    [ exc |-> exc, stdout |-> <<>>, isjson |-> FALSE, json |-> <<>>, calls |-> calls,
      tasks |-> tasks, next_id |-> next_id ]

\* stdout.read().decode(); SSH.close(); return stdout
execute_read(op, out) ==
    [ exc |-> "", stdout |-> out.stdout, isjson |-> out.isjson, json |-> out.json,
      calls |-> <<Call(op, 1, 1, 1, 1)>>, tasks |-> out.tasks, next_id |-> out.next_id ]

\* after SSH.connect: r is resolve_cmd(cmd), then SSH.exec_command
execute_connected(r, net, tasks, next_id) ==
    IF r.exc /= ""
    THEN Raised(r.exc, <<Call("", 1, 1, 0, 0)>>, tasks, next_id)
    ELSE IF net = "exec_fail"
    THEN Raised("SSHException", <<Call(Head(r.s), 1, 1, 0, 0)>>, tasks, next_id)
    ELSE Only({ execute_read(Head(r.s), out) :
                out \in {remote_shell(r.s, IF net = "tool_error" THEN "down" ELSE "ok",
                                      tasks, next_id)} })

\* execute trying the connection a second time before it gives up
execute_retrying(cmd, net, tasks, next_id) ==
    IF cmd.kind = "int"
    THEN Raised("TypeError", <<>>, tasks, next_id)
    ELSE IF net = "connect_fail"
    THEN Raised("TransportError", <<Call("", 2, 0, 0, 0)>>, tasks, next_id)
    ELSE Only({execute_connected(r, net, tasks, next_id) : r \in {resolve_cmd(cmd)}})

execute(cmd, net, tasks, next_id) ==
    IF cmd.kind = "int"
    THEN \* len(cmd) raises before SSH.connect
         Raised("TypeError", <<>>, tasks, next_id)
    ELSE IF net = "connect_fail"
    THEN Raised("TransportError", <<Call("", 1, 0, 0, 0)>>, tasks, next_id)
    ELSE Only({execute_connected(r, net, tasks, next_id) : r \in {resolve_cmd(cmd)}})

available_tasks == {"train", "inference", "create"}

Failed(exc, stdout, e) ==
    [ exc |-> exc, id |-> 0, stdout |-> stdout, calls |-> e.calls,
      tasks |-> e.tasks, next_id |-> e.next_id ]

NotCalled(exc, tasks, next_id) ==
    [ exc |-> exc, id |-> 0, stdout |-> <<>>, calls |-> <<>>,
      tasks |-> tasks, next_id |-> next_id ]

\* return int(...): n is the int of the digits of the acknowledgement
queue_return(n, e) ==
    [ exc |-> n.exc, id |-> n.n, stdout |-> e.stdout, calls |-> e.calls,
      tasks |-> e.tasks, next_id |-> e.next_id ]

\* queue_ack reading the task id without looking for the confirmation phrase
queue_ack_no_phrase(e) ==
    IF e.exc /= "" THEN Failed(e.exc, <<>>, e)
    ELSE queue_return(py_int(filter_digits(e.stdout)), e)

\* e is what execute gave for the queue-add invocation
queue_ack(e) ==
    IF e.exc /= "" THEN Failed(e.exc, <<>>, e)
    ELSE IF py_in("New task added", e.stdout)
    THEN queue_return(py_int(filter_digits(e.stdout)), e)
    ELSE Failed("RuntimeError", e.stdout, e)

\* r is resolve_cmd(cmd)
queue_add(r, task, net, tasks, next_id) ==
    IF r.exc /= "" THEN NotCalled(r.exc, tasks, next_id)
    ELSE Only({ queue_ack(e) :
                e \in {execute(CmdStr(<<"./pueue add -g ", task, " -- ">> \o r.s),
                               net, tasks, next_id)} })

\* queue looking at the group only after the queue-add invocation
queue_late_check(cmd, task, net, tasks, next_id) ==
    Only({ IF task \notin available_tasks /\ a.exc /= "TypeError"
           THEN [a EXCEPT !.exc = "ValueError", !.id = 0, !.stdout = <<>>]
           ELSE a :
           a \in {queue_add(resolve_cmd(cmd), task, net, tasks, next_id)} })

queue(cmd, task, net, tasks, next_id) ==
    IF task \notin available_tasks
    THEN NotCalled("ValueError", tasks, next_id)
    ELSE Only({queue_add(r, task, net, tasks, next_id) : r \in {resolve_cmd(cmd)}})

\* simplify_pueue_status without the "Done" case
simplify_outer_key(status) == ValStr(status.key)

simplify_pueue_status(status) ==
    IF status.tag = "str" THEN ValStr(status.key)
    ELSE IF status.key = "Done"
         THEN IF status.val.tag = "dict"
              THEN ValStr(status.val.key)
              ELSE status.val
         ELSE ValStr(status.key)

\* a task id as a caller gives it: an int, or the text of a hidden input
IdInt(n) == [t |-> "int", n |-> n, s |-> <<>>]
IdStr(s) == [t |-> "str", n |-> 0, s |-> s]
IdNone == [t |-> "none", n |-> 0, s |-> <<>>]

\* str(task_id), also as an f-string renders it
py_str(v) ==
    IF v.t = "int" THEN int_to_str(v.n)
    ELSE IF v.t = "str" THEN v.s
    ELSE <<"None">>

NoPayload ==
    [ id |-> -1, command |-> <<>>, group |-> "", status |-> NoVal,
      started_at |-> None, ended_at |-> None, created_at |-> None, log |-> 0 ]

NoStatus(exc, e) ==
    [ exc |-> exc, payload |-> NoPayload, calls |-> e.calls,
      tasks |-> e.tasks, next_id |-> e.next_id ]

\* status_ = {...}: logj is the entry of the task in the parsed log
status_payload(logj) ==
    [ id |-> logj.task.id,
      command |-> logj.task.command,
      group |-> logj.task.group,
      status |-> simplify_pueue_status(logj.task.status),
      started_at |-> time_parser(logj.task.start),
      ended_at |-> time_parser(logj.task.end_),
      created_at |-> time_parser(logj.task.created_at),
      log |-> logj.output ]

\* json.loads(logj)[task_id]: e is what execute gave for the log query
status_parse(key, e) ==
    IF e.exc /= "" THEN NoStatus(e.exc, e)
    ELSE IF ~e.isjson THEN NoStatus("JSONDecodeError", e)
    ELSE IF key \notin DOMAIN e.json THEN NoStatus("KeyError", e)
    ELSE [ exc |-> "", payload |-> status_payload(e.json[key]), calls |-> e.calls,
           tasks |-> e.tasks, next_id |-> e.next_id ]

\* status sending the queue a kill instead of a log query
status_kills(task_id, full, net, tasks, next_id) ==
    Only({ status_parse(py_str(task_id), e) :
           e \in {execute(CmdStr(<<"./pueue kill ">> \o py_str(task_id)),
                          net, tasks, next_id)} })

status(task_id, full, net, tasks, next_id) ==
    Only({ status_parse(py_str(task_id), e) :
           e \in {execute(CmdStr(<<"./pueue log -j ">> \o py_str(task_id)
                                 \o <<" ", IF full THEN " -f" ELSE " -l 100">>),
                          net, tasks, next_id)} })

----------------------------------------------------------------------------
(* State *)

VARIABLES
    tasks,      \* the queue: task id -> task record
    next_id,    \* the id the queue gives the next task
    changed,    \* the queue has changed since the last status query
    leaked,     \* some session opened on SSH was never closed
    last,       \* the last call made by a caller: what it was and how it ended
    poll,       \* the status callback running as a background job
    observed,   \* the flat statuses the live loop has seen, in order
    progress,   \* what the live loop has passed to set_progress, in order
    returned,   \* what the status callback has returned, in order
    ssh,        \* SSH._transport: the session the shared client holds, 0 for None
    sessions,   \* every session opened so far: "open" or "closed"
    threads,    \* the calls of execute in flight, one per thread
    local,      \* a call of execute in local mode: the process, the buffer, the sink
    resolved,   \* a command given to resolve_cmd, and what came of it
    notebook,   \* a call of start_notebook: what it sent and what it returned
    taglist,    \* a TagList: the dropdown's options and value, the last add-tag event
    table       \* table_output: its default `styles` list, and the calls made of it

vars == <<tasks, next_id, changed, leaked, last, poll, observed, progress, returned,
          ssh, sessions, threads, local, resolved, notebook, taglist, table>>

poll_vars == <<poll, observed, progress, returned>>
conc_vars == <<ssh, sessions, threads>>
exec_vars == <<local, resolved, notebook>>
rest_vars == <<tasks, next_id, changed, leaked, last, poll_vars, exec_vars, taglist, table>>
queue_vars == <<tasks, next_id, changed, leaked, last, poll_vars, conc_vars>>

\* no call in local mode yet
NoLocal ==
    [ pc |-> "idle", sink |-> FALSE, output |-> <<>>, pending |-> <<>>,
      stdout |-> <<>>, sunk |-> <<>>, ret |-> <<>> ]

NoResolved == [pc |-> "idle", cmd |-> [kind |-> "", s |-> <<>>, l |-> <<>>, opts |-> <<>>],
               exc |-> "", s |-> <<>>, again |-> [exc |-> "", s |-> <<>>]]

NoNotebook ==
    [ pc |-> "idle", name |-> <<>>, now |-> 0, host |-> "", port |-> "", kernel |-> "",
      exc |-> "", sent |-> <<>>, url |-> <<>>, calls |-> <<>> ]

ExecInit ==
    /\ local = NoLocal
    /\ resolved = NoResolved
    /\ notebook = NoNotebook

\* no TagList built yet; table_output as the module is imported: its default
\* `styles` is the empty list of the def line, and no call was made
UiInit ==
    /\ taglist = [ pc |-> "idle", options |-> <<>>, value |-> <<>>, triggered |-> FALSE,
                   event |-> "", ret |-> "" ]
    /\ table = [ defaults |-> <<>>, n |-> 0,
                 first |-> [args |-> <<>>, ret |-> [t |-> "", l |-> <<>>]],
                 last |-> [args |-> <<>>, ret |-> [t |-> "", l |-> <<>>]] ]

Threads == 1..MaxThreads

IdleThread == [pc |-> "idle", mine |-> 0, ran_on |-> 0, out |-> ""]

ConcInit ==
    /\ ssh = 0
    /\ sessions = <<>>
    /\ threads = [t \in Threads |-> IdleThread]

\* sessions a sequence of calls left open
RECURSIVE left_open(_)
left_open(calls) ==
    IF Len(calls) = 0 THEN 0
    ELSE Head(calls).opened - Head(calls).closed + left_open(Tail(calls))

\* a call and its end: the arguments, the exception or the value returned,
\* the transport calls made; raw, stdout and again are what the queue showed
NoCall ==
    [ op |-> "", arg |-> IdNone, full |-> FALSE, kind |-> "", group |-> "",
      exc |-> "", id |-> 0, payload |-> NoPayload, calls |-> <<>>,
      stdout |-> <<>>, raw |-> StPlain(""), again |-> FALSE, ret |-> "" ]

IdlePoll ==
    [pc |-> "idle", task_id |-> IdNone, full |-> FALSE, live |-> FALSE, calls |-> <<>>]

\* the queue's ids start anywhere: it may have run tasks before
FirstIds == {9, 42}

Init ==
    /\ tasks = <<>>
    /\ next_id \in FirstIds
    /\ changed = FALSE
    /\ leaked = FALSE
    /\ last = NoCall
    /\ poll = IdlePoll
    /\ observed = <<>>
    /\ progress = <<>>
    /\ returned = <<>>
    /\ ConcInit
    /\ ExecInit
    /\ UiInit

----------------------------------------------------------------------------
(* The queue runs its tasks *)

TaskStash(id) ==
    /\ tasks[id].status = StQueued
    /\ tasks' = [tasks EXCEPT ![id].status = StStashed]
    /\ changed' = TRUE
    /\ UNCHANGED <<next_id, leaked, last, poll_vars, conc_vars, exec_vars, taglist, table>>

TaskStart(id) ==
    /\ tasks[id].status \in {StQueued, StStashed}
    /\ tasks' = [tasks EXCEPT ![id].status = StRunning, ![id].start = Stamp(1, 2)]
    /\ changed' = TRUE
    /\ UNCHANGED <<next_id, leaked, last, poll_vars, conc_vars, exec_vars, taglist, table>>

TaskEnd(id, final) ==
    /\ tasks[id].status = StRunning
    /\ tasks' = [tasks EXCEPT ![id].status = final, ![id].end_ = Stamp(1, 3),
                              ![id].output = 1]
    /\ changed' = TRUE
    /\ UNCHANGED <<next_id, leaked, last, poll_vars, conc_vars, exec_vars, taglist, table>>

QueueRuns ==
    \E id \in DOMAIN tasks :
        \/ TaskStash(id)
        \/ TaskStart(id)
        \/ \E final \in FinalStatuses : TaskEnd(id, final)

----------------------------------------------------------------------------
(* Callers of exec.py *)

\* one command in each of its shapes, and two values that are no command
Commands ==
    { CmdStr(<<"ls">>),
      CmdList(<< <<"ls">> >>),
      CmdTuple(<<"ls">>, << [k |-> <<"v">>, v |-> OptBool(FALSE)] >>),
      CmdOther("dict"),
      CmdOther("int") }

GroupInputs == {"train", "debug"}

\* the bound on what a call may add to the queue
Within(r) == DOMAIN r.tasks = DOMAIN tasks \/ Cardinality(DOMAIN tasks) < MaxNew

\* the effect of a call on the queue and on the sessions
Effect(r) ==
    /\ Within(r)
    /\ tasks' = r.tasks
    /\ next_id' = r.next_id
    /\ leaked' = (leaked \/ left_open(r.calls) > 0)

Executed(cmd, e) ==
    /\ Effect(e)
    /\ changed' = (changed \/ e.tasks /= tasks)
    /\ last' = [NoCall EXCEPT !.op = "execute", !.kind = cmd.kind, !.exc = e.exc,
                              !.calls = e.calls, !.stdout = e.stdout]
    /\ UNCHANGED <<poll_vars, conc_vars, exec_vars, taglist, table>>

CallExecute(cmd, net) ==
    \E e \in {execute(cmd, net, tasks, next_id)} : Executed(cmd, e)

Queued(cmd, group, r) ==
    /\ Effect(r)
    /\ changed' = (changed \/ r.tasks /= tasks)
    /\ last' = [NoCall EXCEPT !.op = "queue", !.kind = cmd.kind, !.group = group,
                              !.exc = r.exc, !.id = r.id, !.calls = r.calls,
                              !.stdout = r.stdout]
    /\ UNCHANGED <<poll_vars, conc_vars, exec_vars, taglist, table>>

CallQueue(cmd, group, net) ==
    \E r \in {queue(cmd, group, net, tasks, next_id)} : Queued(cmd, group, r)

\* the ids a caller asks about: those of the queue's tasks, and another
KnownIds == DOMAIN tasks \cup {next_id}

Asked(task_id, full, r) ==
    /\ Effect(r)
    /\ changed' = (r.tasks /= tasks)
    /\ last' = [NoCall EXCEPT !.op = "status", !.arg = task_id, !.full = full,
                              !.exc = r.exc, !.payload = r.payload, !.calls = r.calls,
                              !.raw = IF r.exc = "" THEN tasks[r.payload.id].status
                                      ELSE StPlain(""),
                              !.again = /\ last.op = "status" /\ last.exc = ""
                                        /\ last.arg = task_id /\ last.full = full
                                        /\ ~changed /\ r.exc = ""]
    /\ UNCHANGED <<poll_vars, conc_vars, exec_vars, taglist, table>>

CallStatus(task_id, full, net) ==
    \E r \in {status(task_id, full, net, tasks, next_id)} : Asked(task_id, full, r)

Next ==
    \/ QueueRuns
    \/ \E cmd \in Commands, net \in Outcomes : CallExecute(cmd, net)
    \/ \E cmd \in Commands, group \in GroupInputs, net \in Outcomes :
           CallQueue(cmd, group, net)
    \/ \E id \in KnownIds, full \in BOOLEAN, net \in Outcomes :
           CallStatus(IdInt(id), full, net)

Spec == Init /\ [][Next]_vars

----------------------------------------------------------------------------
(* components.py: PueueLog's status callback, a background job *)

\* the labels at which the live loop stops
TerminalLabelsNoKilled == {"Finished", "Failed", "Success"}

TerminalLabels == {"Finished", "Failed", "Killed", "Success"}

\* Optional[bool] inputs of the callback
Tri == {"None", "True", "False"}

\* what the callback returns: no_update, or (title, ui, "") of a payload
NoUpdate == [no_update |-> TRUE, payload |-> NoPayload]
Result(payload) == [no_update |-> FALSE, payload |-> payload]

\* what set_progress is given: the title's id and group, and the rendered status
Notice(payload) ==
    [id |-> payload.id, group |-> payload.group, status |-> payload.status.key]

PollState(pc, observed_, progress_, returned_) ==
    [pc |-> pc, observed |-> observed_, progress |-> progress_, returned |-> returned_]

\* one pass of the loop that tells the progress sink before it looks at the status
live_step_emit_first(r, obs, prog) ==
    IF r.exc /= "" THEN PollState("raised", obs, prog, <<>>)
    ELSE IF r.payload.status.tag = "str" /\ r.payload.status.key \in TerminalLabels
    THEN PollState("returned", Append(obs, r.payload.status.key),
                   Append(prog, Notice(r.payload)), <<Result(r.payload)>>)
    ELSE PollState("polling", Append(obs, r.payload.status.key),
                   Append(prog, Notice(r.payload)), <<>>)

\* one pass of a loop that gives up after its first query
live_step_once(r, obs, prog) ==
    IF r.exc /= "" THEN PollState("raised", obs, prog, <<>>)
    ELSE PollState("returned", Append(obs, r.payload.status.key), prog,
                   <<Result(r.payload)>>)

\* one pass of `while True`: r is what __pueue_status gave
live_step(r, obs, prog) ==
    IF r.exc /= "" THEN PollState("raised", obs, prog, <<>>)
    ELSE IF r.payload.status.tag = "str" /\ r.payload.status.key \in TerminalLabels
    THEN PollState("returned", Append(obs, r.payload.status.key), prog,
                   <<Result(r.payload)>>)
    ELSE PollState("polling", Append(obs, r.payload.status.key),
                   Append(prog, Notice(r.payload)), <<>>)

\* __pueue_status: the status payload (its "ui" entry is rendered from it)
pueue_status(task_id, full, net, tasks_, next_id_) ==
    status(task_id, full, net, tasks_, next_id_)

Running(task_id, full, live, pc, calls) ==
    [pc |-> pc, task_id |-> task_id, full |-> full, live |-> live, calls |-> calls]

\* the guard failed: return no_update
NotUpdated(task_id, full) ==
    /\ poll' = Running(task_id, full = "True", FALSE, "returned", <<>>)
    /\ returned' = <<NoUpdate>>
    /\ observed' = <<>>
    /\ progress' = <<>>
    /\ UNCHANGED <<tasks, next_id, leaked>>

\* the one status of a call that is not live, also given to the progress sink
AskedOnceAnnounced(task_id, full, r) ==
    /\ Effect(r)
    /\ poll' = Running(task_id, full = "True", FALSE,
                       IF r.exc /= "" THEN "raised" ELSE "returned", r.calls)
    /\ returned' = IF r.exc /= "" THEN <<>> ELSE <<Result(r.payload)>>
    /\ observed' = <<>>
    /\ progress' = IF r.exc /= "" THEN <<>> ELSE <<Notice(r.payload)>>

\* is_live is false: r is the one status, returned whatever it is
AskedOnce(task_id, full, r) ==
    /\ Effect(r)
    /\ poll' = Running(task_id, full = "True", FALSE,
                       IF r.exc /= "" THEN "raised" ELSE "returned", r.calls)
    /\ returned' = IF r.exc /= "" THEN <<>> ELSE <<Result(r.payload)>>
    /\ observed' = <<>>
    /\ progress' = <<>>

\* a pass of the live loop: r is the status, s where the pass leaves the loop
Passed(task_id, full, r, s) ==
    /\ Effect(r)
    /\ Len(s.progress) <= MaxPolls
    /\ poll' = Running(task_id, full, TRUE, s.pc, r.calls)
    /\ returned' = s.returned
    /\ observed' = s.observed
    /\ progress' = s.progress

FirstPass(task_id, full, r) ==
    \E s \in {live_step(r, <<>>, <<>>)} : Passed(task_id, full = "True", r, s)

\* a status callback whose guard does not look at full
pueue_status_callback_full_unchecked(task_id, is_live, full, net) ==
    /\ poll.pc /= "polling"
    /\ IF task_id.t = "none" \/ py_str(task_id) = <<>> \/ is_live = "None"
       THEN NotUpdated(task_id, full)
       ELSE \E r \in {pueue_status(task_id, full = "True", net, tasks, next_id)} :
                IF is_live /= "True"
                THEN AskedOnce(task_id, full, r)
                ELSE FirstPass(task_id, full, r)
    /\ UNCHANGED <<changed, last, conc_vars, exec_vars, taglist, table>>

\* the callback is called: it returns at once, or enters the live loop and
\* makes its first pass
pueue_status_callback(task_id, is_live, full, net) ==
    /\ poll.pc /= "polling"
    /\ IF task_id.t = "none" \/ py_str(task_id) = <<>> \/ is_live = "None" \/ full = "None"
       THEN NotUpdated(task_id, full)
       ELSE \E r \in {pueue_status(task_id, full = "True", net, tasks, next_id)} :
                IF is_live /= "True"
                THEN AskedOnce(task_id, full, r)
                ELSE FirstPass(task_id, full, r)
    /\ UNCHANGED <<changed, last, conc_vars, exec_vars, taglist, table>>

NextPass(r) ==
    \E s \in {live_step(r, observed, progress)} : Passed(poll.task_id, poll.full, r, s)

\* the loop wakes from time.sleep(5) and makes its next pass
PollIteration(net) ==
    /\ poll.pc = "polling"
    /\ \E r \in {pueue_status(poll.task_id, poll.full, net, tasks, next_id)} : NextPass(r)
    /\ UNCHANGED <<changed, last, conc_vars, exec_vars, taglist, table>>

\* the "Live update" switch changes: the running job is cancelled
CancelPoll ==
    /\ poll.pc = "polling"
    /\ poll' = [poll EXCEPT !.pc = "cancelled", !.calls = <<>>]
    /\ UNCHANGED <<tasks, next_id, changed, leaked, last, observed, progress, returned,
                   conc_vars, exec_vars, taglist, table>>

\* the task the callbacks are asked about, queued
PollInit ==
    /\ tasks = (42 :> NewTask(42, <<"ls">>, "train"))
    /\ next_id = 43
    /\ changed = FALSE
    /\ leaked = FALSE
    /\ last = NoCall
    /\ poll = IdlePoll
    /\ observed = <<>>
    /\ progress = <<>>
    /\ returned = <<>>
    /\ ConcInit
    /\ ExecInit
    /\ UiInit

\* the hidden input's values: nothing, empty, the task, and no task of the queue
TaskIdInputs == {IdNone, IdStr(<<>>), IdStr(<<"4", "2">>), IdStr(<<"7">>)}

PollStep == \E net \in Outcomes : PollIteration(net)

PollNext ==
    \/ QueueRuns
    \/ \E task_id \in TaskIdInputs, is_live \in Tri, full \in Tri, net \in Outcomes :
           pueue_status_callback(task_id, is_live, full, net)
    \/ PollStep
    \/ CancelPoll

PollSpec == PollInit /\ [][PollNext]_vars

\* the loop goes on after each sleep
LivePollSpec == PollSpec /\ WF_vars(PollStep)

----------------------------------------------------------------------------
(* exec.py: execute, statement by statement, called from several threads of *)
(* one process; SSH is the one paramiko client of the module               *)

\* SSH.connect(...): the client opens a new session and holds it; a session
\* it held before stays as it is
Connect(t) ==
    /\ threads[t].pc = "idle"
    /\ Len(sessions) < MaxSessions
    /\ sessions' = Append(sessions, "open")
    /\ ssh' = Len(sessions) + 1
    /\ threads' = [threads EXCEPT ![t] = [IdleThread EXCEPT !.pc = "connected",
                                                            !.mine = Len(sessions) + 1]]
    /\ UNCHANGED rest_vars

\* SSH.exec_command(cmd): runs on the session the client holds now; with
\* none it raises
ExecCommand(t) ==
    /\ threads[t].pc = "connected"
    /\ threads' = [threads EXCEPT ![t].pc = IF ssh = 0 THEN "raised" ELSE "executed",
                                  ![t].ran_on = ssh]
    /\ UNCHANGED <<ssh, sessions, rest_vars>>

\* stdout.read(): all of the output, or what had arrived when the session
\* was closed under the call
ReadStdout(t, out) ==
    /\ threads[t].pc = "executed"
    /\ out = "cut" => sessions[threads[t].ran_on] = "closed"
    /\ threads' = [threads EXCEPT ![t].pc = "read", ![t].out = out]
    /\ UNCHANGED <<ssh, sessions, rest_vars>>

\* SSH.close(): closes the session the client holds now, if any
Close(t) ==
    /\ threads[t].pc = "read"
    /\ sessions' = IF ssh = 0 THEN sessions ELSE [sessions EXCEPT ![ssh] = "closed"]
    /\ ssh' = 0
    /\ threads' = [threads EXCEPT ![t].pc = "done"]
    /\ UNCHANGED rest_vars

\* the call is over; the thread serves its next request
Return(t) ==
    /\ threads[t].pc \in {"done", "raised"}
    /\ threads' = [threads EXCEPT ![t] = IdleThread]
    /\ UNCHANGED <<ssh, sessions, rest_vars>>

ConcNext ==
    \E t \in Threads :
        \/ Connect(t)
        \/ ExecCommand(t)
        \/ \E out \in {"all", "cut"} : ReadStdout(t, out)
        \/ Close(t)
        \/ Return(t)

ConcSpec == Init /\ [][ConcNext]_vars

\* C8: overlapping calls of execute do not interfere: a call runs its
\* command on the session it opened itself, that session stays open until
\* the call closes it, and no call fails because of another.
C8_CallsDoNotInterfere ==
    \A t \in Threads :
        /\ threads[t].pc \in {"executed", "read", "done"}
               => threads[t].ran_on = threads[t].mine
        /\ threads[t].pc \in {"connected", "executed", "read"}
               => sessions[threads[t].mine] = "open"
        /\ threads[t].pc /= "raised"
        /\ threads[t].out /= "cut"

----------------------------------------------------------------------------
(* components.py: PueueLog's "Kill" and "Queue again" buttons *)

\* how a button callback ends: the exception, or what it returns
Button(exc, ret, id, calls, tasks_, next_id_) ==
    [ exc |-> exc, ret |-> ret, id |-> id, calls |-> calls,
      tasks |-> tasks_, next_id |-> next_id_ ]

\* return no_update: ctx.triggered_id is None
NotTriggered(tasks_, next_id_) == Button("", "no_update", 0, <<>>, tasks_, next_id_)

\* a kill callback that asks for the status after the kill and fails unless
\* the task shows as killed
pueue_kill_callback_inspecting(triggered, task_id, net, tasks_, next_id_) ==
    IF ~triggered THEN NotTriggered(tasks_, next_id_)
    ELSE Only({ Only({ Button(IF e.exc /= "" THEN e.exc
                              ELSE IF s.exc /= "" THEN s.exc
                              ELSE IF s.payload.status.key = "Killed" THEN ""
                              ELSE "RuntimeError",
                              IF e.exc = "" /\ s.exc = "" /\ s.payload.status.key = "Killed"
                              THEN "True" ELSE "",
                              0, e.calls \o s.calls, s.tasks, s.next_id) :
                       s \in {status(task_id, FALSE, net, e.tasks, e.next_id)} }) :
                e \in {execute(CmdStr(<<"./pueue kill ">> \o py_str(task_id)),
                               net, tasks_, next_id_)} })

\* exec.execute(f"./pueue kill {task_id}"); return True
pueue_kill_callback(triggered, task_id, net, tasks_, next_id_) ==
    IF ~triggered THEN NotTriggered(tasks_, next_id_)
    ELSE Only({ Button(e.exc, IF e.exc = "" THEN "True" ELSE "", 0, e.calls,
                       e.tasks, e.next_id) :
                e \in {execute(CmdStr(<<"./pueue kill ">> \o py_str(task_id)),
                               net, tasks_, next_id_)} })

\* exec.queue(command, group); return True: s is the status, q what queue gave
queue_again_queued(s, q) ==
    Button(q.exc, IF q.exc = "" THEN "True" ELSE "", q.id, s.calls \o q.calls,
           q.tasks, q.next_id)

\* command = status["command"]; group = status["group"]; exec.queue(...)
queue_again_asked(s, net) ==
    IF s.exc /= "" THEN Button(s.exc, "", 0, s.calls, s.tasks, s.next_id)
    ELSE Only({ queue_again_queued(s, q) :
                q \in {queue(CmdStr(s.payload.command), s.payload.group, net,
                             s.tasks, s.next_id)} })

\* a queue-again callback that submits a command of its own, without asking
\* for the status of the task
pueue_queue_again_callback_blind(triggered, task_id, net1, net2, tasks_, next_id_) ==
    IF ~triggered THEN NotTriggered(tasks_, next_id_)
    ELSE Only({ Button(q.exc, IF q.exc = "" THEN "True" ELSE "", q.id, q.calls,
                       q.tasks, q.next_id) :
                q \in {queue(CmdStr(<<"ls">>), "train", net2, tasks_, next_id_)} })

pueue_queue_again_callback(triggered, task_id, net1, net2, tasks_, next_id_) ==
    IF ~triggered THEN NotTriggered(tasks_, next_id_)
    ELSE Only({ queue_again_asked(s, net2) :
                s \in {status(task_id, FALSE, net1, tasks_, next_id_)} })

\* the callback has ended
Clicked(op, task_id, r) ==
    /\ DOMAIN r.tasks = DOMAIN tasks \/ Cardinality(DOMAIN tasks) < 1 + MaxNew
    /\ tasks' = r.tasks
    /\ next_id' = r.next_id
    /\ leaked' = (leaked \/ left_open(r.calls) > 0)
    /\ changed' = (changed \/ r.tasks /= tasks)
    /\ last' = [NoCall EXCEPT !.op = op, !.arg = task_id, !.exc = r.exc, !.id = r.id,
                              !.calls = r.calls, !.ret = r.ret]
    /\ UNCHANGED <<poll_vars, conc_vars, exec_vars, taglist, table>>

KillClicked(triggered, task_id, net) ==
    \E r \in {pueue_kill_callback(triggered, task_id, net, tasks, next_id)} :
        Clicked("kill", task_id, r)

QueueAgainClicked(triggered, task_id, net1, net2) ==
    \E r \in {pueue_queue_again_callback(triggered, task_id, net1, net2, tasks, next_id)} :
        Clicked("queue_again", task_id, r)

\* the groups of the task the buttons are about: one queue accepts, one not
ButtonGroups == {"train", "default"}

ButtonInit ==
    /\ \E g \in ButtonGroups : tasks = (42 :> NewTask(42, <<"ls">>, g))
    /\ next_id = 43
    /\ changed = FALSE
    /\ leaked = FALSE
    /\ last = NoCall
    /\ poll = IdlePoll
    /\ observed = <<>>
    /\ progress = <<>>
    /\ returned = <<>>
    /\ ConcInit
    /\ ExecInit
    /\ UiInit

\* the task the buttons are about, and no task of the queue
ButtonIds == {IdStr(<<"4", "2">>), IdStr(<<"7">>)}

\* the callback fired without a click, or clicked with what the network does
\* during its calls of execute
Clicks == {<<FALSE, "ok", "ok">>} \cup ({TRUE} \X Outcomes \X Outcomes)

ButtonNext ==
    \/ QueueRuns
    \/ \E task_id \in ButtonIds, c \in Clicks :
           c[3] = "ok" /\ KillClicked(c[1], task_id, c[2])
    \/ \E task_id \in ButtonIds, c \in Clicks :
           QueueAgainClicked(c[1], task_id, c[2], c[3])

ButtonSpec == ButtonInit /\ [][ButtonNext]_vars

----------------------------------------------------------------------------
(* components.py: the three callbacks of one PueueLog *)

\* the callbacks fire one after the other, each with any of its inputs; the
\* network is up
CallbackNext ==
    \/ \E id \in DOMAIN tasks : TaskStart(id)
    \/ \E task_id \in TaskIdInputs, is_live \in Tri, full \in Tri :
           pueue_status_callback(task_id, is_live, full, "ok")
    \/ PollIteration("ok")
    \/ CancelPoll
    \/ \E task_id \in ButtonIds, triggered \in BOOLEAN :
           KillClicked(triggered, task_id, "ok")
    \/ \E task_id \in ButtonIds, triggered \in BOOLEAN :
           QueueAgainClicked(triggered, task_id, "ok", "ok")

CallbackSpec == ButtonInit /\ [][CallbackNext]_vars

----------------------------------------------------------------------------
(* exec.py: execute in local mode *)

\* the lines a process may print, as `for line in process.stdout` yields
\* them: none is empty; "\xff\n" is no UTF-8
Lines == {"a\n", "\n", "b\n", "\\xff\n"}

\* a last line without its newline
OpenLines == {"c"}

\* what a process prints before it exits
Outputs ==
    UNION { { body \o tail : body \in [1..n -> Lines],
                             tail \in {<<>>} \cup {<<o>> : o \in OpenLines} } :
            n \in 0..MaxLines - 1 }
    \cup [1..MaxLines -> Lines]

\* the loop body with a sink that is given the new line alone
local_line_alone(l, line) ==
    IF line = "\\xff\n"
    THEN [l EXCEPT !.pc = "raised", !.pending = Tail(l.pending)]
    ELSE [l EXCEPT !.pending = Tail(l.pending),
                   !.stdout = Append(l.stdout, line),
                   !.sunk = IF l.sink THEN Append(l.sunk, <<line>>) ELSE l.sunk]

\* stdout += line.decode("utf8"); if progress: progress(stdout)
local_line(l, line) ==
    IF line = "\\xff\n"
    THEN [l EXCEPT !.pc = "raised", !.pending = Tail(l.pending)]
    ELSE [l EXCEPT !.pending = Tail(l.pending),
                   !.stdout = Append(l.stdout, line),
                   !.sunk = IF l.sink THEN Append(l.sunk, Append(l.stdout, line))
                            ELSE l.sunk]

\* execute(cmd, progress=..., local=True): stdout = ""; the process starts
LocalStart(output, sink) ==
    /\ local.pc = "idle"
    /\ local' = [NoLocal EXCEPT !.pc = "reading", !.sink = sink,
                                !.output = output, !.pending = output]
    /\ UNCHANGED <<queue_vars, resolved, notebook, taglist, table>>

\* the next line of the process is there
LocalLine ==
    /\ local.pc = "reading"
    /\ local.pending /= <<>>
    /\ local' = local_line(local, Head(local.pending))
    /\ UNCHANGED <<queue_vars, resolved, notebook, taglist, table>>

\* the process has exited: return stdout
LocalExit ==
    /\ local.pc = "reading"
    /\ local.pending = <<>>
    /\ local' = [local EXCEPT !.pc = "returned", !.ret = local.stdout]
    /\ UNCHANGED <<queue_vars, resolved, notebook, taglist, table>>

LocalNext ==
    \/ \E output \in Outputs, sink \in BOOLEAN : LocalStart(output, sink)
    \/ LocalLine
    \/ LocalExit

LocalSpec == Init /\ [][LocalNext]_vars

----------------------------------------------------------------------------
(* exec.py: shell_escape and resolve_cmd on their own *)

\* the characters of a value: a letter, a single quote, a space
Chars == {"a", "'", " "}

\* str(value): the texts of up to MaxLen characters
Values == UNION { [1..n -> Chars] : n \in 0..MaxLen }

\* the tokens of a sequence command
Tokens == { <<"l", "s">>, <<"-", "l">>, <<>> }

\* option values: booleans, None, and other values
OptionValues ==
    {OptBool(TRUE), OptBool(FALSE), OptNone}
        \cup {OptStr(v) : v \in {<<>>, <<"a">>, <<"'">>, <<"a", " ">>}}

OptionNames == { <<"v">>, <<"n">> }

\* cmd[1]: a dict, its items in insertion order (no name twice)
OptionDicts ==
    { opts \in UNION { [1..n -> [k : OptionNames, v : OptionValues]] : n \in 0..MaxTokens } :
          \A i, j \in 1..Len(opts) : i /= j => opts[i].k /= opts[j].k }

\* commands of every shape, and values that are no command
ResolveInputs ==
    {CmdStr(v) : v \in Values}
        \cup {CmdList(l) : l \in UNION { [1..n -> Tokens] : n \in 0..MaxTokens }}
        \cup {CmdTuple(<<"l", "s">>, opts) : opts \in OptionDicts}
        \cup {CmdTupleN(<<"l", "s">>, << [k |-> <<"v">>, v |-> OptBool(TRUE)] >>, << <<"x">> >>),
              CmdOther("dict"), CmdOther("int")}

\* shell_escape(value)
Escape(value) ==
    /\ resolved.pc = "idle"
    /\ resolved' = [NoResolved EXCEPT !.pc = "escaped", !.cmd = CmdStr(value),
                                      !.s = shell_escape(value)]
    /\ UNCHANGED <<queue_vars, local, notebook, taglist, table>>

Resolved(cmd, r) ==
    /\ resolved' = [NoResolved EXCEPT !.pc = IF r.exc = "" THEN "resolved" ELSE "raised",
                                      !.cmd = cmd, !.exc = r.exc, !.s = r.s]
    /\ UNCHANGED <<queue_vars, local, notebook, taglist, table>>

\* resolve_cmd(cmd)
Resolve(cmd) ==
    /\ resolved.pc = "idle"
    /\ \E r \in {resolve_cmd(cmd)} : Resolved(cmd, r)

\* the resolved command is resolved once more, as execute does with the
\* command line queue has built
ResolveAgain ==
    /\ resolved.pc = "resolved"
    /\ resolved' = [resolved EXCEPT !.pc = "again",
                                    !.again = resolve_cmd(CmdStr(resolved.s))]
    /\ UNCHANGED <<queue_vars, local, notebook, taglist, table>>

ResolveNext ==
    \/ \E value \in Values : Escape(value)
    \/ \E cmd \in ResolveInputs : Resolve(cmd)
    \/ ResolveAgain

ResolveSpec == Init /\ [][ResolveNext]_vars

----------------------------------------------------------------------------
(* exec.py: start_notebook *)

\* ENV as the module has it after import: the defaults, or the values of
\* DHC_JUPYTER_HOST, DHC_JUPYTER_PORT, DHC_JUPYTER_KERNEL_NAME
Envs ==
    { [ JUPYTER_TEMPLATE_FOLDER |-> "~/notebooks/templates",
        JUPYTER_NOTEBOOK_FOLDER |-> "~/notebooks",
        JUPYTER_HOST |-> "192.168.0.94", JUPYTER_PORT |-> "10123",
        JUPYTER_KERNEL_NAME |-> "python3" ],
      [ JUPYTER_TEMPLATE_FOLDER |-> "~/notebooks/templates",
        JUPYTER_NOTEBOOK_FOLDER |-> "~/notebooks",
        JUPYTER_HOST |-> "jupyter", JUPYTER_PORT |-> "8888",
        JUPYTER_KERNEL_NAME |-> "ir" ] }

\* names of a template, with and without the prefix and the extension
NotebookNames ==
    { <<"report">>, <<"template_", "report">>, <<"report", ".ipynb">>,
      <<"template_", "report", ".ipynb">> }

\* name.replace(".ipynb", "").replace("template_", "")
strip_name(name) == SelectSeq(name, LAMBDA x : x \notin {".ipynb", "template_"})

\* f"{now:%Y-%m-%d_%H-%M-%S-%f}" within one second of the clock
strftime(now) ==
    <<"2023-01-01_00-00-00-">>
        \o [i \in 1..(6 - Len(int_to_str(now))) |-> "0"] \o int_to_str(now)

\* parameters of a notebook: None, {} and a mapping
ParameterInputs == {"None", "{}", "{alpha: 1}"}

\* base64.b64encode(yaml.dump(parameters).encode("utf-8")).decode("utf-8")
b64_yaml(parameters) ==
    IF parameters \in {"None", "{}"} THEN "e30K" ELSE "YWxwaGE6IDEK"

\* how start_notebook ends: e is what execute gave
notebook_url(env, notebook_name, line, e) ==
    [ exc |-> e.exc, sent |-> line, calls |-> e.calls,
      url |-> IF e.exc /= "" THEN <<>>
              ELSE <<"http://", env.JUPYTER_HOST, ":", env.JUPYTER_PORT,
                     "/notebooks/generated/">> \o notebook_name
                   \o <<"?kernel_name=", env.JUPYTER_KERNEL_NAME>>,
      tasks |-> e.tasks, next_id |-> e.next_id ]

\* the notebook is prepared under notebook_name: line is the command
notebook_prepare(env, notebook_name, line, net, tasks_, next_id_) ==
    Only({ notebook_url(env, notebook_name, line, e) :
           e \in {execute(CmdStr(line), net, tasks_, next_id_)} })

\* start_notebook returning a URL whose file name is stamped a tick later
\* than the one given to the tool
start_notebook_two_stamps(env, name, parameters, now, net, tasks_, next_id_) ==
    Only({ [r EXCEPT !.url = IF r.exc /= "" THEN <<>>
                             ELSE <<"http://", env.JUPYTER_HOST, ":", env.JUPYTER_PORT,
                                    "/notebooks/generated/">>
                                  \o strip_name(name) \o <<"_">> \o strftime(now + 1)
                                  \o <<".ipynb">>
                                  \o <<"?kernel_name=", env.JUPYTER_KERNEL_NAME>>] :
           r \in { notebook_prepare(
                       env, strip_name(name) \o <<"_">> \o strftime(now) \o <<".ipynb">>,
                       <<"/home/task_runner/miniforge3/envs/hbdx/bin/papermill --prepare-only ",
                         env.JUPYTER_TEMPLATE_FOLDER, "/template_">> \o strip_name(name)
                         \o <<".ipynb", " ", env.JUPYTER_NOTEBOOK_FOLDER, "/generated/">>
                         \o strip_name(name) \o <<"_">> \o strftime(now) \o <<".ipynb">>
                         \o <<" -b ", b64_yaml(parameters)>>,
                       net, tasks_, next_id_) } })

start_notebook(env, name, parameters, now, net, tasks_, next_id_) ==
    notebook_prepare(
        env, strip_name(name) \o <<"_">> \o strftime(now) \o <<".ipynb">>,
        <<"/home/task_runner/miniforge3/envs/hbdx/bin/papermill --prepare-only ",
          env.JUPYTER_TEMPLATE_FOLDER, "/template_">> \o strip_name(name)
          \o <<".ipynb", " ", env.JUPYTER_NOTEBOOK_FOLDER, "/generated/">>
          \o strip_name(name) \o <<"_">> \o strftime(now) \o <<".ipynb">>
          \o <<" -b ", b64_yaml(parameters)>>,
        net, tasks_, next_id_)

Started(env, name, now, r) ==
    /\ notebook' = [ pc |-> IF r.exc = "" THEN "returned" ELSE "raised",
                     name |-> name, now |-> now, host |-> env.JUPYTER_HOST,
                     port |-> env.JUPYTER_PORT, kernel |-> env.JUPYTER_KERNEL_NAME,
                     exc |-> r.exc, sent |-> r.sent, url |-> r.url, calls |-> r.calls ]
    /\ tasks' = r.tasks
    /\ next_id' = r.next_id
    /\ leaked' = (leaked \/ left_open(r.calls) > 0)
    /\ UNCHANGED <<changed, last, poll_vars, conc_vars, local, resolved, taglist, table>>

StartNotebook(env, name, parameters, now, net) ==
    \E r \in {start_notebook(env, name, parameters, now, net, tasks, next_id)} :
        Started(env, name, now, r)

NotebookNext ==
    \E env \in Envs, name \in NotebookNames, parameters \in ParameterInputs,
       now \in 0..MaxClock, net \in Outcomes :
        StartNotebook(env, name, parameters, now, net)

NotebookSpec == Init /\ [][NotebookNext]_vars

----------------------------------------------------------------------------
(* components.py: TagList and its add-tag callback *)

\* TagList.__new__: the Dropdown's options, each {"label": t, "value": t},
\* and its value; tags and options are lists (None is taken as [])
TagList(tags, options) ==
    [ options |-> [i \in 1..Len(SelectSeq(tags, LAMBDA t : t \notin {options[j] :
                                                              j \in DOMAIN options})
                                \o options) |->
                       [label |-> (SelectSeq(tags, LAMBDA t : t \notin {options[j] :
                                                               j \in DOMAIN options})
                                   \o options)[i],
                        value |-> (SelectSeq(tags, LAMBDA t : t \notin {options[j] :
                                                               j \in DOMAIN options})
                                   \o options)[i]]],
      value |-> tags ]

\* value is None ([t |-> "none"]) or a string; tags are the Dropdown's
\* options, value_ its value, None or a list; the callback returns no_update
\* or (options, value)
taglist_add_tag(triggered, value, tags, value_) ==
    IF ~triggered \/ value.t = "none" \/ value.s = ""
    THEN [no_update |-> TRUE, options |-> <<>>, value |-> <<>>]
    ELSE IF value.s \in {tags[i].value : i \in DOMAIN tags}
    THEN [no_update |-> TRUE, options |-> <<>>, value |-> <<>>]
    ELSE [ no_update |-> FALSE,
           options |-> Append(tags, [label |-> value.s, value |-> value.s]),
           value |-> Append(IF value_.t = "none" THEN <<>> ELSE value_.l, value.s) ]

\* lists of at most MaxTags tags, with repetitions
TagSeqs == UNION { [1..n -> {"a", "b", "c"}] : n \in 0..MaxTags }

\* the page is laid out with a TagList
BuildTagList(tags, options) ==
    /\ taglist.pc = "idle"
    /\ \E t \in {TagList(tags, options)} :
           taglist' = [ pc |-> "built", options |-> t.options, value |-> t.value,
                        triggered |-> FALSE, event |-> "", ret |-> "" ]
    /\ UNCHANGED <<queue_vars, exec_vars, table>>

\* the input box fires the callback: at page load without a trigger, later
\* with what was typed; no_update leaves the Dropdown as it is
AddTag(triggered, value) ==
    /\ taglist.pc /= "idle"
    /\ \E r \in {taglist_add_tag(triggered, value, taglist.options,
                                 [t |-> "list", l |-> taglist.value])} :
           taglist' = [ pc |-> "added", triggered |-> triggered,
                        options |-> IF r.no_update THEN taglist.options ELSE r.options,
                        value |-> IF r.no_update THEN taglist.value ELSE r.value,
                        event |-> IF value.t = "none" THEN "None" ELSE value.s,
                        ret |-> IF r.no_update THEN "no_update" ELSE "updated" ]
    /\ UNCHANGED <<queue_vars, exec_vars, table>>

\* the user takes a selected tag out of the Dropdown
Deselect(i) ==
    /\ taglist.pc /= "idle"
    /\ i \in 1..Len(taglist.value)
    /\ taglist' = [taglist EXCEPT !.pc = "deselected", !.triggered = FALSE, !.event = "",
                       !.ret = "",
                       !.value = SubSeq(taglist.value, 1, i - 1)
                                     \o SubSeq(taglist.value, i + 1, Len(taglist.value))]
    /\ UNCHANGED <<queue_vars, exec_vars, table>>

\* a TagList is built from any tags and from options that hold no duplicate;
\* the input box holds None, "" or a tag
TagNext ==
    \/ \E tags \in TagSeqs,
          options \in {o \in TagSeqs : Cardinality({o[i] : i \in DOMAIN o}) = Len(o)} :
           BuildTagList(tags, options)
    \/ \E triggered \in BOOLEAN,
          value \in {[t |-> "none", s |-> ""]}
                        \cup {[t |-> "str", s |-> x] : x \in {"", "a", "b", "c"}} :
           AddTag(triggered, value)
    \/ \E i \in 1..(2 * MaxTags) : Deselect(i)

TagSpec == Init /\ [][TagNext]_vars

----------------------------------------------------------------------------
(* io.py: table_output, the style list it returns *)

\* the number of colour steps of discrete_background_color_bins
n_bins == 5

\* str.replace("_", " ") on the column names used here
replace_underscore(c) == IF c = "x_1" THEN "x 1" ELSE c

\* the columns to colour. df is None ("none"), no DataFrame ("other"), or a
\* DataFrame with one level of columns: its column names in order and those
\* of a numeric dtype. color is None, True, one name ("str") or a list of
\* one name. numerical_columns are the numeric columns after df.columns was
\* renamed; color True takes them all, a name the one it names if numeric
color_columns(df, color) ==
    SelectSeq([i \in 1..Len(df.columns) |-> replace_underscore(df.columns[i])],
              LAMBDA c : /\ \E d \in df.numeric : replace_underscore(d) = c
                         /\ color.t = "true" \/ c = replace_underscore(color.c))

\* discrete_background_color_bins(df[[column]]): one style for each bin, its
\* bounds taken from the column's data
discrete_background_color_bins(df, column) ==
    [i \in 1..n_bins |-> [column_id |-> column, bin |-> i, data |-> df.name]]

\* styles.extend(...) for each column in turn
RECURSIVE extended(_, _, _)
extended(styles, df, columns) ==
    IF columns = <<>> THEN styles
    ELSE extended(styles \o discrete_background_color_bins(df, Head(columns)),
                  df, Tail(columns))

\* table_output: styles is the argument, left at its default ("default"),
\* None, False, or a list of the caller's; defaults is the list object the
\* def line made for `styles`. Gives what is returned in place of the styles
\* and the default list as the call leaves it: the list `styles` is bound to
\* is extended in place
table_output(df, color, styles, defaults) ==
    IF df.kind = "none" THEN [ret |-> [t |-> "no_update", l |-> <<>>], defaults |-> defaults]
    ELSE IF df.kind = "other" THEN [ret |-> [t |-> "df", l |-> <<>>], defaults |-> defaults]
    ELSE IF styles.t \in {"none", "false"}
    THEN [ret |-> [t |-> styles.t, l |-> <<>>], defaults |-> defaults]
    ELSE IF styles.t = "default"
    THEN Only({ [ret |-> [t |-> "list", l |-> l], defaults |-> l] :
                l \in {IF color.t = "none" THEN defaults
                       ELSE extended(defaults, df, color_columns(df, color))} })
    ELSE Only({ [ret |-> [t |-> "list", l |-> l], defaults |-> defaults] :
                l \in {IF color.t = "none" THEN styles.l
                       ELSE extended(styles.l, df, color_columns(df, color))} })

\* a callback calls table_output and returns what it gave
CallTableOutput(df, color, styles) ==
    /\ table.n < MaxCalls
    /\ \E r \in {table_output(df, color, styles, table.defaults)} :
           table' = [ defaults |-> r.defaults, n |-> table.n + 1,
                      first |-> IF table.n = 0
                                THEN [args |-> <<df, color, styles>>, ret |-> r.ret]
                                ELSE table.first,
                      last |-> [args |-> <<df, color, styles>>, ret |-> r.ret] ]
    /\ UNCHANGED <<queue_vars, exec_vars, taglist>>

\* the calls a process may make: df None, no DataFrame, or one of two
\* DataFrames; color None, True, a name or a list of one name; styles left
\* out, None, False or a list of the caller's
TableNext ==
    \E df \in { [kind |-> "none", name |-> "", columns |-> <<>>, numeric |-> {}],
                [kind |-> "other", name |-> "", columns |-> <<>>, numeric |-> {}],
                [kind |-> "frame", name |-> "scores", columns |-> <<"n", "s">>,
                 numeric |-> {"n"}],
                [kind |-> "frame", name |-> "runs", columns |-> <<"x_1", "n">>,
                 numeric |-> {"x_1", "n"}] },
       color \in { [t |-> "none", c |-> ""], [t |-> "true", c |-> ""],
                   [t |-> "str", c |-> "n"], [t |-> "list", c |-> "x_1"] },
       styles \in { [t |-> "default", l |-> <<>>], [t |-> "none", l |-> <<>>],
                    [t |-> "false", l |-> <<>>],
                    [t |-> "list", l |-> <<[column_id |-> "s", bin |-> 0, data |-> ""]>>] } :
        CallTableOutput(df, color, styles)

TableSpec == Init /\ [][TableNext]_vars

----------------------------------------------------------------------------
(* The live polling loop *)

LastOf(s) == s[Len(s)]

\* the statuses seen so far by the loop that are no terminal label
NonTerminalSeen ==
    {i \in 1..Len(observed) : observed[i] \notin {"Finished", "Failed", "Killed", "Success"}}

\* C1: in a live run the progress sink is called exactly once for each
\* non-terminal status observed, in order, and never with a terminal status;
\* a terminal status is observed last and is returned exactly once; for
\* Running, Running, Success there are two progress calls and one return.
C1_ProgressOncePerNonTerminal ==
    poll.live =>
        /\ Len(progress) = Cardinality(NonTerminalSeen)
        /\ \A i \in 1..Len(progress) :
               /\ progress[i].status = observed[i]
               /\ i \in NonTerminalSeen
        /\ \A i \in 1..Len(observed) - 1 : i \in NonTerminalSeen
        /\ Len(returned) = IF Len(observed) > Cardinality(NonTerminalSeen) THEN 1 ELSE 0
        /\ Len(returned) = 1 =>
               /\ ~returned[1].no_update
               /\ returned[1].payload.status.key = LastOf(observed)
        /\ observed = <<"Running", "Running", "Success">> =>
               /\ Len(progress) = 2
               /\ Len(returned) = 1
               /\ returned[1].payload.status.key = "Success"

C1_Witness ==
    /\ poll.live /\ poll.pc = "returned"
    /\ observed = <<"Running", "Running", "Success">>
    /\ Len(progress) = 2 /\ Len(returned) = 1

\* the task the live loop watches is in a final status in the queue
PolledTerminal ==
    /\ poll.pc = "polling"
    /\ \E id \in DOMAIN tasks :
           /\ int_to_str(id) = poll.task_id.s
           /\ tasks[id].status \in FinalStatuses

\* C2 as claimed: once the watched task is terminal in the queue, the loop
\* eventually returns the final status payload.
C2_TerminalIsReturned == PolledTerminal ~> (poll.pc = "returned")

\* C2 as amended: once the watched task is terminal in the queue (Finished,
\* Failed, Killed or Success), the loop eventually ends; its next status
\* query that succeeds returns the final payload, and it ends without
\* returning only when a status query fails (the error is raised) or the job
\* is cancelled first; no terminal status is ever passed to the progress
\* sink.
C2_TerminalEndsLoop ==
    /\ PolledTerminal ~> (poll.pc \in {"returned", "raised", "cancelled"})
    /\ [][ (PolledTerminal /\ PollStep /\ poll'.pc /= "raised")
               => /\ poll'.pc = "returned"
                  /\ Len(returned') = 1
                  /\ returned'[1].payload.status.key
                         \in {"Finished", "Failed", "Killed", "Success"}
                  /\ progress' = progress ]_vars
    /\ [](poll.live => \A i \in 1..Len(progress) :
              progress[i].status \notin {"Finished", "Failed", "Killed", "Success"})

C2_Witness ==
    /\ poll.live /\ poll.pc = "returned"
    /\ Len(progress) >= 1
    /\ tasks[42].status = StDict("Done", ValStr("Killed"))
    /\ Len(returned) = 1 /\ returned[1].payload.status.key = "Killed"

\* C3: the live loop has no limit of its own: it returns only on a status in
\* {Finished, Failed, Killed, Success}, compared as written, and every pass
\* that sees another status tells the progress sink and stays in the loop.
C3_NoIterationLimit ==
    /\ []((poll.live /\ poll.pc = "returned")
              => /\ observed /= <<>>
                 /\ LastOf(observed) \in {"Finished", "Failed", "Killed", "Success"})
    /\ [][ ( /\ poll'.live /\ observed' /= observed /\ observed' /= <<>>
             /\ LastOf(observed') \notin {"Finished", "Failed", "Killed", "Success"} )
               => /\ poll'.pc = "polling"
                  /\ Len(progress') = Len(observed')
                  /\ LastOf(progress').status = LastOf(observed') ]_vars

C3_Witness ==
    /\ poll.live /\ poll.pc = "polling"
    /\ observed = <<"Queued", "Stashed">>
    /\ Len(progress) = 2

----------------------------------------------------------------------------
(* Job submission *)

\* C4: queue called with a group outside {train, inference, create} fails
\* with ValueError (InvalidGroup) and has made no transport call: no
\* connect, no remote execute, whatever the shape of the command.
C4_InvalidGroupBeforeTransport ==
    (last.op = "queue" /\ last.group \notin {"train", "inference", "create"})
        => (last.exc = "ValueError" /\ last.calls = <<>>)

C4_Witness ==
    /\ last.op = "queue" /\ last.group = "debug" /\ last.kind = "tuple"
    /\ last.exc = "ValueError"

\* C5: when the acknowledgement holds the confirmation phrase, queue returns
\* the integer read from all the digits of the acknowledgement, which is the
\* id the queue gave the new task; an acknowledgement for task 42 gives 42.
C5_QueueReturnsTaskId ==
    (last.op = "queue" /\ last.exc = "")
        => /\ py_in("New task added", last.stdout)
           /\ last.id = digits_value(SelectSeq(last.stdout, LAMBDA x : x \in Digits))
           /\ last.id = next_id - 1
           /\ last.id \in DOMAIN tasks
           /\ tasks[last.id].id = last.id
           /\ (SelectSeq(last.stdout, LAMBDA x : x \in Digits) = <<"4", "2">>
                   => last.id = 42)

C5_Witness ==
    /\ last.op = "queue" /\ last.exc = "" /\ last.id = 42
    /\ py_in("New task added", last.stdout)

\* C6: when the queue-add invocation ran and its acknowledgement lacks the
\* confirmation phrase, queue fails with RuntimeError (SubmissionError) and
\* returns no task id.
C6_NoPhraseIsSubmissionError ==
    ( /\ last.op = "queue"
      /\ Len(last.calls) = 1 /\ last.calls[1].ran = 1
      /\ ~py_in("New task added", last.stdout) )
        => (last.exc = "RuntimeError" /\ last.id = 0)

C6_Witness ==
    /\ last.op = "queue" /\ last.exc = "RuntimeError"
    /\ Len(last.calls) = 1 /\ last.calls[1].ran = 1

----------------------------------------------------------------------------
(* Job status *)

\* C7: for a status in any encoding the queue uses (a plain label, or a
\* one-entry mapping wrapping a label or a nested detail) normalization
\* yields a single string label: {"Done": "Success"} gives "Success",
\* {"Done": {"Failed": 127}} gives "Failed", "Running" gives "Running", and
\* a one-entry mapping other than Done gives its outer key.
C7_StatusIsOneLabel ==
    (last.op = "status" /\ last.exc = "")
        => /\ last.payload.status.tag = "str"
           /\ last.raw = StDict("Done", ValStr("Success"))
                  => last.payload.status.key = "Success"
           /\ last.raw = StDict("Done", ValDict("Failed", 127))
                  => last.payload.status.key = "Failed"
           /\ last.raw = StPlain("Running") => last.payload.status.key = "Running"
           /\ (last.raw.tag = "dict" /\ last.raw.key /= "Done")
                  => last.payload.status.key = last.raw.key
           /\ last.raw.tag = "str" => last.payload.status.key = last.raw.key

C7_Witness ==
    /\ last.op = "status" /\ last.exc = ""
    /\ last.raw = StDict("Done", ValDict("Failed", 127))
    /\ last.payload.status = ValStr("Failed")

\* C10: a status query changes neither the queue's task set nor any task;
\* the payload's id is the id asked for; and a query that follows an equal
\* query with no change of the queue between them returns an equal payload.
C10_StatusIsReadOnly ==
    [][ ( /\ last'.op = "status"
          /\ \E net \in Outcomes : CallStatus(last'.arg, last'.full, net) )
            => /\ tasks' = tasks
               /\ next_id' = next_id
               /\ last'.exc = "" => last'.payload.id = last'.arg.n
               /\ last'.again => last'.payload = last.payload ]_vars

C10_Witness ==
    /\ last.op = "status" /\ last.again /\ last.exc = ""
    /\ last.payload.id = last.arg.n
    /\ last.raw = StRunning

----------------------------------------------------------------------------
(* Transport sessions *)

\* C9: every remote execute call is one connect/disconnect cycle: each
\* session a call opened it has closed, and no session is left open after
\* any sequence of calls.
C9_OneCyclePerCall ==
    /\ ~leaked
    /\ \A i \in 1..Len(last.calls) : last.calls[i].opened = last.calls[i].closed

----------------------------------------------------------------------------
(* Cancel and resubmit *)

\* C11: a resubmission that completes has made a status query for the given
\* id and then one queue-add, in this order; the queue has exactly one task
\* more, with an id that is new and differs from the original's, in the
\* original's group; every task the queue had is unchanged. A resubmission
\* whose status query fails submits nothing.
C11_ResubmitAddsNewTask ==
    [][ ( /\ last'.op = "queue_again"
          /\ \E net1 \in Outcomes, net2 \in Outcomes :
                 QueueAgainClicked(TRUE, last'.arg, net1, net2) )
            => /\ \A id \in DOMAIN tasks : id \in DOMAIN tasks' /\ tasks'[id] = tasks[id]
               /\ Len(last'.calls) >= 1 /\ last'.calls[1].op \in {"", "./pueue log -j "}
               /\ Len(last'.calls) <= 2
               /\ Len(last'.calls) = 2 =>
                      /\ last'.calls[1].op = "./pueue log -j " /\ last'.calls[1].ran = 1
                      /\ last'.calls[2].op \in {"", "./pueue add -g "}
               /\ last'.ret = "True" =>
                      /\ Len(last'.calls) = 2
                      /\ last'.calls[2].op = "./pueue add -g " /\ last'.calls[2].ran = 1
                      /\ DOMAIN tasks' = DOMAIN tasks \cup {last'.id}
                      /\ last'.id \notin DOMAIN tasks
                      /\ last'.id /= digits_value(last'.arg.s)
                      /\ tasks'[last'.id].group = tasks[digits_value(last'.arg.s)].group
               /\ last'.ret /= "True" => tasks' = tasks ]_vars

C11_Witness ==
    /\ last.op = "queue_again" /\ last.ret = "True" /\ last.id = 43
    /\ last.arg = IdStr(<<"4", "2">>)
    /\ DOMAIN tasks = {42, 43}
    /\ tasks[42].status = StDict("Done", ValStr("Success"))
    /\ tasks[43].status = StQueued

\* C12: a cancel makes exactly one transport call, the kill instruction for
\* the given id, and no status query; it returns True whenever that call
\* raised nothing, whether or not a task was killed, and fails only with the
\* error of the transport.
C12_CancelIsFireAndForget ==
    [][ ( /\ last'.op = "kill"
          /\ \E net \in Outcomes : KillClicked(TRUE, last'.arg, net) )
            => /\ Len(last'.calls) = 1
               /\ last'.calls[1].op \in {"", "./pueue kill "}
               /\ last'.calls[1].ran = 1 => last'.calls[1].op = "./pueue kill "
               /\ last'.ret = "True" <=> last'.calls[1].ran = 1
               /\ last'.ret /= "True" => last'.exc \in {"TransportError", "SSHException"}
               /\ \A id \in DOMAIN tasks :
                      tasks'[id] = tasks[id]
                          \/ ( /\ tasks[id].status = StRunning
                               /\ int_to_str(id) = last'.arg.s
                               /\ tasks'[id].status = StDict("Done", ValStr("Killed")) ) ]_vars

\* a cancel of a task that had already ended: it returns True all the same
C12_Witness ==
    /\ last.op = "kill" /\ last.ret = "True"
    /\ last.arg = IdStr(<<"4", "2">>)
    /\ tasks[42].status = StDict("Done", ValStr("Success"))

\* C13: no operation retries: every call of execute made by a cancel or a
\* resubmission (directly, or through status and queue) makes one connect
\* attempt; when that attempt fails the call runs no command, the failure
\* leaves the operation as a TransportError, and nothing is called after it.
C13_NoRetry ==
    \A i \in 1..Len(last.calls) :
        /\ last.calls[i].attempts = 1
        /\ last.calls[i].opened = 0 =>
               /\ last.calls[i].ran = 0
               /\ i = Len(last.calls)
               /\ last.exc = "TransportError"
               /\ last.ret = ""

C13_Witness ==
    /\ last.op = "queue_again" /\ last.exc = "TransportError"
    /\ Len(last.calls) = 2
    /\ last.calls[1].ran = 1 /\ last.calls[2].opened = 0
    /\ DOMAIN tasks = {42}

----------------------------------------------------------------------------
(* Local mode *)

\* the text of a buffer is that of the lines in it, one after the other; no
\* line is empty, so a buffer of more lines is a longer text
IsPrefix(a, b) == Len(a) <= Len(b) /\ SubSeq(b, 1, Len(a)) = a

\* C14: in local mode with a sink, the sink has been called once for each
\* line read, with all the output read up to that line; each argument
\* properly extends the one before; and the value returned at the exit of
\* the process is the whole output, which is the last argument of the sink
\* when there was a line.
C14_SinkGetsGrowingOutput ==
    local.sink =>
        /\ Len(local.sunk) = Len(local.stdout)
        /\ \A i \in 1..Len(local.sunk) : local.sunk[i] = SubSeq(local.output, 1, i)
        /\ \A i \in 1..Len(local.sunk) - 1 :
               /\ IsPrefix(local.sunk[i], local.sunk[i + 1])
               /\ Len(local.sunk[i]) < Len(local.sunk[i + 1])
        /\ local.pc = "returned" =>
               /\ local.ret = local.output
               /\ Len(local.sunk) = Len(local.output)
               /\ local.output /= <<>> => local.ret = local.sunk[Len(local.sunk)]

C14_Witness ==
    /\ local.sink /\ local.pc = "returned"
    /\ local.output = <<"a\n", "\n", "c">>
    /\ local.sunk = << <<"a\n">>, <<"a\n", "\n">>, <<"a\n", "\n", "c">> >>
    /\ local.ret = <<"a\n", "\n", "c">>

----------------------------------------------------------------------------
(* Command resolution *)

\* a shell-quote-aware reader (POSIX sh, shlex.split): the words of a text.
\* mode is "plain", "quote" (inside '...') or "esc" (after a backslash);
\* cur is the word being read, if inword
RECURSIVE sh_words(_, _, _, _, _)
sh_words(s, mode, cur, inword, words) ==
    IF Len(s) = 0
    THEN IF mode /= "plain" THEN [ok |-> FALSE, words |-> <<>>]
         ELSE [ok |-> TRUE, words |-> IF inword THEN Append(words, cur) ELSE words]
    ELSE LET c == Head(s)
             r == Tail(s)
         IN  IF mode = "quote"
             THEN IF c = "'" THEN sh_words(r, "plain", cur, TRUE, words)
                  ELSE sh_words(r, "quote", Append(cur, c), TRUE, words)
             ELSE IF mode = "esc"
             THEN sh_words(r, "plain", Append(cur, c), TRUE, words)
             ELSE IF c = "'" THEN sh_words(r, "quote", cur, TRUE, words)
             ELSE IF c = "\\" THEN sh_words(r, "esc", cur, TRUE, words)
             ELSE IF c = " "
             THEN sh_words(r, "plain", <<>>, FALSE,
                           IF inword THEN Append(words, cur) ELSE words)
             ELSE sh_words(r, "plain", Append(cur, c), TRUE, words)

shell_read(s) == sh_words(s, "plain", <<>>, FALSE, <<>>)

\* C15: the token shell_escape gives for a value is read back by a
\* shell-quote-aware reader as one word, the value itself, also when the
\* value holds single quotes.
C15_EscapeReadsBack ==
    resolved.pc = "escaped"
        => shell_read(resolved.s) = [ok |-> TRUE, words |-> <<resolved.cmd.s>>]

\* the options of a command that give a token
Emitting(opts) == SelectSeq(opts, LAMBDA o : (o.v.t = "bool" /\ o.v.b) \/ o.v.t = "str")

\* the token of an option that gives one: --name, or --name='escaped'
TokenOf(o) ==
    IF o.v.t = "bool" THEN <<"--">> \o o.k
    ELSE <<"--">> \o o.k \o <<"=", "'">> \o replace_quote(o.v.s) \o <<"'">>

\* where token j of a command line starts: after the tokens before it and
\* one space for each
RECURSIVE StartOf(_, _)
StartOf(toks, j) == IF j = 1 THEN 1 ELSE StartOf(toks, j - 1) + Len(toks[j - 1]) + 1

\* s is the tokens, each followed by one space but the last
IsJoined(s, toks) ==
    IF Len(toks) = 0 THEN s = <<>>
    ELSE /\ Len(s) = StartOf(toks, Len(toks)) + Len(toks[Len(toks)]) - 1
         /\ \A j \in 1..Len(toks) :
                /\ SubSeq(s, StartOf(toks, j), StartOf(toks, j) + Len(toks[j]) - 1) = toks[j]
                /\ j > 1 => s[StartOf(toks, j) - 1] = " "

\* C16: a (base, options) command resolves to the base token and then, in
\* option order, one bare --name for each option that is boolean true, one
\* --name='escaped' for each option that is neither boolean nor None, and
\* nothing for the options that are boolean false or None; a shell reads
\* each of these tokens as one word.
C16_OptionTokens ==
    (resolved.pc \in {"resolved", "again"} /\ resolved.cmd.kind = "tuple")
        => /\ IsJoined(resolved.s,
                       <<resolved.cmd.s>>
                           \o [i \in 1..Len(Emitting(resolved.cmd.opts)) |->
                                   TokenOf(Emitting(resolved.cmd.opts)[i])])
           /\ shell_read(resolved.s).ok
           /\ Len(shell_read(resolved.s).words) = 1 + Len(Emitting(resolved.cmd.opts))

C16_Witness ==
    /\ resolved.pc = "resolved"
    /\ resolved.cmd = CmdTuple(<<"l", "s">>,
                               << [k |-> <<"v">>, v |-> OptBool(FALSE)],
                                  [k |-> <<"n">>, v |-> OptStr(<<"a", " ">>)] >>)
    /\ resolved.s = <<"l", "s", " ", "--", "n", "=", "'", "a", " ", "'">>

\* C17: a sequence command resolves to its tokens joined by single spaces, a
\* string command to itself, and resolving what resolve_cmd returned gives
\* it back unchanged.
C17_ResolveIsIdempotent ==
    /\ (resolved.pc \in {"resolved", "again"} /\ resolved.cmd.kind = "list")
           => IsJoined(resolved.s, resolved.cmd.l)
    /\ (resolved.pc \in {"resolved", "again"} /\ resolved.cmd.kind = "str")
           => resolved.s = resolved.cmd.s
    /\ resolved.pc = "again"
           => resolved.again = [exc |-> "", s |-> resolved.s]

C17_Witness ==
    /\ resolved.pc = "again"
    /\ resolved.cmd = CmdList(<< <<"l", "s">>, <<"-", "l">> >>)
    /\ resolved.s = <<"l", "s", " ", "-", "l">>
    /\ resolved.again.s = <<"l", "s", " ", "-", "l">>

\* C18: a command that is no string, no list of tokens and no (base,
\* options) pair fails in resolve_cmd with TypeError (InvalidCommandKind)
\* and gives no command string.
C18_OtherShapesAreTypeErrors ==
    ( /\ resolved.pc \in {"resolved", "raised", "again"}
      /\ resolved.cmd.kind \notin {"str", "list"}
      /\ ~(resolved.cmd.kind = "tuple" /\ Len(resolved.cmd.l) = 0) )
        => (resolved.pc = "raised" /\ resolved.exc = "TypeError" /\ resolved.s = <<>>)

----------------------------------------------------------------------------
(* Notebooks *)

\* the file name in the URL start_notebook returned: what stands between
\* the path and the query
UrlFile == SubSeq(notebook.url, 6, Len(notebook.url) - 2)

\* C19: start_notebook returns whenever its call of execute raised nothing,
\* whatever the tool did; the URL is http://<host>:<port>/notebooks/generated/
\* <file>?kernel_name=<kernel> with the configured host, port and kernel, and
\* <file> is the generated file name that was given to the tool as the
\* output notebook: the stripped name, the time stamp, ".ipynb".
C19_UrlNamesTheNotebookSent ==
    /\ notebook.pc = "returned" <=>
           (Len(notebook.calls) = 1 /\ notebook.calls[1].ran = 1)
    /\ notebook.pc = "returned" =>
           /\ SubSeq(notebook.url, 1, 5)
                  = <<"http://", notebook.host, ":", notebook.port, "/notebooks/generated/">>
           /\ SubSeq(notebook.url, Len(notebook.url) - 1, Len(notebook.url))
                  = <<"?kernel_name=", notebook.kernel>>
           /\ UrlFile = <<"report", "_">> \o strftime(notebook.now) \o <<".ipynb">>
           /\ \E i \in 1..Len(notebook.sent) :
                  /\ notebook.sent[i] = "/generated/"
                  /\ SubSeq(notebook.sent, i + 1, i + Len(UrlFile)) = UrlFile
                  /\ notebook.sent[i + Len(UrlFile) + 1] = " -b "

\* a URL returned for a name given with its prefix and its extension
C19_Witness ==
    /\ notebook.pc = "returned"
    /\ notebook.name = <<"template_", "report", ".ipynb">>
    /\ notebook.now = 2
    /\ notebook.url = <<"http://", "jupyter", ":", "8888", "/notebooks/generated/",
                        "report", "_", "2023-01-01_00-00-00-",
                        "0", "0", "0", "0", "0", "2", ".ipynb",
                        "?kernel_name=", "ir">>

----------------------------------------------------------------------------
(* The status callback when it is not live *)

\* C20 as claimed: called with is_live false and a task id that is not
\* empty, the status callback makes exactly one status query, never calls
\* the progress sink, and returns the payload of that query.
C20_NotLiveReturnsOneStatus ==
    [][ \A task_id \in TaskIdInputs, full \in Tri, net \in Outcomes :
            ( /\ task_id.t = "str" /\ task_id.s /= <<>>
              /\ pueue_status_callback(task_id, "False", full, net) )
                => /\ Len(poll'.calls) = 1
                   /\ progress' = <<>>
                   /\ Len(returned') = 1 /\ ~returned'[1].no_update ]_vars

\* C20 as amended: called with is_live false, a task id that is not empty
\* and full not None, the status callback makes exactly one status query and
\* never calls the progress sink; when the query succeeds it returns that
\* query's payload, whatever its status, and when the query fails the error
\* leaves the callback and nothing is returned.
C20_NotLiveWithFullGiven ==
    [][ ( /\ ~poll'.live /\ poll'.pc \in {"returned", "raised"}
          /\ poll'.task_id.t = "str" /\ poll'.task_id.s /= <<>>
          /\ \E net \in Outcomes :
                 pueue_status_callback(poll'.task_id, "False",
                                       IF poll'.full THEN "True" ELSE "False", net) )
            => /\ Len(poll'.calls) = 1
               /\ poll'.calls[1].op \in {"", "./pueue log -j "}
               /\ progress' = <<>>
               /\ tasks' = tasks
               /\ poll'.pc = "returned" =>
                      /\ poll'.calls[1].ran = 1
                      /\ Len(returned') = 1 /\ ~returned'[1].no_update
                      /\ returned'[1].payload.id = digits_value(poll'.task_id.s)
                      /\ returned'[1].payload.status
                             = simplify_pueue_status(
                                   tasks[digits_value(poll'.task_id.s)].status)
               /\ poll'.pc = "raised" => returned' = <<>> ]_vars

\* not live, and the status returned is one of a task still running
C20_Witness ==
    /\ ~poll.live /\ poll.pc = "returned"
    /\ poll.task_id = IdStr(<<"4", "2">>)
    /\ Len(poll.calls) = 1
    /\ progress = <<>>
    /\ Len(returned) = 1 /\ ~returned[1].no_update
    /\ returned[1].payload.status.key = "Running"

----------------------------------------------------------------------------
(* Resubmitting a task of a group queue does not accept *)

\* C21: a resubmission of a task whose recorded group is outside
\* available_tasks never makes a queue-add invocation, adds no task and does
\* not return True; its transport calls are those of one status query, and
\* it ends with the error of that query, or, when the query succeeded, with
\* the ValueError of queue.
C21_ResubmitOutsideGroupFails ==
    [][ ( /\ last'.op = "queue_again"
          /\ digits_value(last'.arg.s) \in DOMAIN tasks
          /\ tasks[digits_value(last'.arg.s)].group \notin available_tasks
          /\ \E net1 \in Outcomes, net2 \in Outcomes :
                 QueueAgainClicked(TRUE, last'.arg, net1, net2) )
            => /\ tasks' = tasks /\ next_id' = next_id
               /\ last'.ret /= "True" /\ last'.exc /= ""
               /\ Len(last'.calls) = 1
               /\ last'.calls[1].op \in {"", "./pueue log -j "}
               /\ \A i \in 1..Len(last'.calls) : last'.calls[i].op /= "./pueue add -g "
               /\ \E net \in Outcomes :
                      \E s \in {status(last'.arg, FALSE, net, tasks, next_id)} :
                          /\ last'.calls = s.calls
                          /\ last'.exc = IF s.exc /= "" THEN s.exc ELSE "ValueError" ]_vars

\* the status query ran and closed its session, and queue refused the group
C21_Witness ==
    /\ last.op = "queue_again" /\ last.exc = "ValueError" /\ last.ret = ""
    /\ last.arg = IdStr(<<"4", "2">>)
    /\ Len(last.calls) = 1
    /\ last.calls[1].op = "./pueue log -j " /\ last.calls[1].ran = 1
    /\ DOMAIN tasks = {42} /\ tasks[42].group = "default"

----------------------------------------------------------------------------
(* The guards of the callbacks *)

\* C22: the status callback called with a task id that is None or empty, or
\* with is_live or full None, returns no_update and makes no status query
\* and no call of the progress sink; the kill and the resubmit callback
\* called without a triggering event return no_update and make no transport
\* call. None of them changes the queue or opens a session.
C22_GuardsMakeNoCall ==
    [][ /\ \A is_live \in Tri, full \in Tri :
               ( /\ last' = last
                 /\ \/ poll'.task_id.t = "none" \/ poll'.task_id.s = <<>>
                    \/ is_live = "None" \/ full = "None"
                 /\ pueue_status_callback(poll'.task_id, is_live, full, "ok") )
                   => /\ poll'.calls = <<>> /\ poll'.pc = "returned"
                      /\ returned' = <<NoUpdate>>
                      /\ progress' = <<>> /\ observed' = <<>>
                      /\ tasks' = tasks /\ leaked' = leaked
        /\ ( /\ last'.op \in {"kill", "queue_again"}
             /\ \/ KillClicked(FALSE, last'.arg, "ok")
                \/ QueueAgainClicked(FALSE, last'.arg, "ok", "ok") )
               => /\ last'.calls = <<>>
                  /\ last'.ret = "no_update" /\ last'.exc = ""
                  /\ tasks' = tasks /\ leaked' = leaked ]_vars

\* the status callback was called for the task with a switch at None, and
\* the resubmit callback fired without a click
C22_Witness ==
    /\ poll.pc = "returned" /\ poll.task_id = IdStr(<<"4", "2">>)
    /\ poll.calls = <<>> /\ returned = <<NoUpdate>> /\ progress = <<>>
    /\ last.op = "queue_again" /\ last.ret = "no_update" /\ last.calls = <<>>
    /\ DOMAIN tasks = {42}

----------------------------------------------------------------------------
(* Tag lists *)

\* no value stands twice in a list
NoDuplicates(l) == \A i \in 1..Len(l), j \in 1..Len(l) : l[i] = l[j] => i = j

\* the values of a list of options
values_of(options) == {options[i].value : i \in DOMAIN options}

\* C23: for a TagList built from tags and options without duplicates, at
\* every moment each selected tag is among the options and no two options
\* have the same value; an add-tag event with an empty, a missing or an
\* already present tag changes neither the options nor the selected values,
\* and one with a new tag appends it once to both.
C23_TagsStayAmongOptions ==
    [][ taglist'.pc /= "idle" =>
            /\ \A i \in 1..Len(taglist'.value) :
                   taglist'.value[i] \in values_of(taglist'.options)
            /\ NoDuplicates([i \in 1..Len(taglist'.options) |-> taglist'.options[i].value])
            /\ (taglist'.pc = "added" /\ taglist'.triggered) =>
                   IF \/ taglist'.event \in {"None", ""}
                      \/ taglist'.event \in values_of(taglist.options)
                   THEN /\ taglist'.options = taglist.options
                        /\ taglist'.value = taglist.value
                   ELSE /\ taglist'.options
                               = Append(taglist.options,
                                        [label |-> taglist'.event, value |-> taglist'.event])
                        /\ taglist'.value = Append(taglist.value, taglist'.event) ]_vars

----------------------------------------------------------------------------
(* Tables *)

\* C24: table_output is a function of its arguments: a call returns the
\* style list the first call of the process returned if that call had equal
\* arguments, and the style list a call with these arguments returns when no
\* call was made before it, also when columns are coloured and `styles` is
\* left at its default.
C24_TableOutputIsAFunction ==
    table.n > 0 =>
        /\ table.last.args = table.first.args => table.last.ret = table.first.ret
        /\ table.last.ret = table_output(table.last.args[1], table.last.args[2],
                                         table.last.args[3], <<>>).ret

====
